---- MODULE Spec2Model ----
(***************************************************************************)
(* Model of the TAcharts indicator library (src/py/utils.py).              *)
(*                                                                         *)
(* Every function of the library is a pure function of its arguments.  A   *)
(* call is modelled as: Init draws the arguments (args), an action applies *)
(* the function and stores what it returns or raises (ret).  rsi is        *)
(* modelled statement by statement, because its claims are about the       *)
(* single steps of its loop (locals holds its local variables).            *)
(*                                                                         *)
(* Numbers: numpy/Python floats are modelled as exact rationals extended   *)
(* by the two IEEE outcomes of a division by zero (Inf, NaN).  Rounding    *)
(* and the sign of zero are not modelled; series inputs are float series   *)
(* (numpy arrays or pandas Series), as the docstrings require.             *)
(***************************************************************************)
EXTENDS Integers, Sequences, FiniteSets, TLC

VARIABLES args, locals, ret, pc

vars == <<args, locals, ret, pc>>

(***************************************************************************)
(* Bounds of the model                                                     *)
(***************************************************************************)
MaxRows == 5
MaxInterval == 3
MaxAvgs == 3
MaxVal == 2
MaxTarget == 7
MaxClose == 5
MaxPrice == 3
MaxN == 3
MaxLen == 3
MaxCoord == 2

(***************************************************************************)
(* Exact arithmetic on floats: [num, den] in lowest terms with den > 0;    *)
(* den = 0 encodes the non-finite results of IEEE division.                *)
(***************************************************************************)
Abs(x) == IF x < 0 THEN -x ELSE x

RECURSIVE GCD(_, _)
GCD(a, b) == IF b = 0 THEN a ELSE GCD(b, a % b)

Q(n, d) ==
    LET g == GCD(Abs(n), Abs(d))
        s == IF d < 0 THEN -1 ELSE 1
    IN  [num |-> (s * n) \div g, den |-> (s * d) \div g]

F(n) == [num |-> n, den |-> 1]

Inf == [num |-> 1, den |-> 0]
NaN == [num |-> 0, den |-> 0]

FAdd(x, y) ==
    IF x = NaN \/ y = NaN THEN NaN
    ELSE IF x = Inf \/ y = Inf THEN Inf
    ELSE Q(x.num * y.den + y.num * x.den, x.den * y.den)

FSub(x, y) ==
    IF x = NaN \/ y = NaN THEN NaN
    ELSE IF x = Inf /\ y = Inf THEN NaN
    ELSE IF x = Inf \/ y = Inf THEN Inf
    ELSE Q(x.num * y.den - y.num * x.den, x.den * y.den)

\* products are cancelled crosswise before multiplying
FMul(x, y) ==
    IF x = NaN \/ y = NaN THEN NaN
    ELSE IF x = Inf \/ y = Inf
         THEN (IF x.num = 0 \/ y.num = 0 THEN NaN ELSE Inf)
    ELSE LET g1 == GCD(Abs(x.num), y.den)
             g2 == GCD(Abs(y.num), x.den)
         IN  Q((x.num \div g1) * (y.num \div g2), (x.den \div g2) * (y.den \div g1))

\* numpy float division: x/0 is inf (nan for 0/0), finite/inf is 0
FDiv(x, y) ==
    IF x = NaN \/ y = NaN THEN NaN
    ELSE IF x = Inf THEN (IF y = Inf THEN NaN ELSE Inf)
    ELSE IF y = Inf THEN F(0)
    ELSE IF y.num = 0 THEN (IF x.num = 0 THEN NaN ELSE Inf)
    ELSE FMul(x, Q(y.den, y.num))

(***************************************************************************)
(* Python sequences: 0-based indexing, slices, range                       *)
(***************************************************************************)
Min2(a, b) == IF a < b THEN a ELSE b
Max2(a, b) == IF a > b THEN a ELSE b

At(s, i) == s[i + 1]

\* s[a:b] for 0 <= a: the slice is clamped to the sequence
Slice(s, a, b) == SubSeq(s, a + 1, Min2(b, Len(s)))

RECURSIVE PyRange(_, _, _)
PyRange(start, stop, step) ==
    IF start >= stop THEN <<>>
    ELSE <<start>> \o PyRange(start + step, stop, step)

RECURSIVE SeqSum(_)
SeqSum(s) == IF s = <<>> THEN 0 ELSE s[1] + SeqSum(Tail(s))

SeqMax(s) == CHOOSE x \in {s[j] : j \in 1..Len(s)} : \A j \in 1..Len(s) : s[j] <= x
SeqMin(s) == CHOOSE x \in {s[j] : j \in 1..Len(s)} : \A j \in 1..Len(s) : x <= s[j]

Column(rows, name) == [r \in 1..Len(rows) |-> rows[r][name]]

Raise(e) == [ok |-> FALSE, error |-> e]
Return(v) == [ok |-> TRUE, value |-> v]

NoCall == [ok |-> FALSE, error |-> "pending"]
NoLocals == [i |-> 0]

(***************************************************************************)
(* group_candles                                                           *)
(***************************************************************************)
\* the candles a table is built from; the date of a row is its position
Candles ==
    { [open |-> 2, high |-> 3, low |-> 1, close |-> 2, volume |-> 10],
      [open |-> 5, high |-> 6, low |-> 5, close |-> 6, volume |-> 20],
      [open |-> 4, high |-> 7, low |-> 2, close |-> 3, volume |-> 5],
      [open |-> 1, high |-> 1, low |-> 1, close |-> 1, volume |-> 0] }

MkTable(cs) ==
    [r \in 1..Len(cs) |->
        [date |-> 100 + (r - 1), open |-> cs[r].open, high |-> cs[r].high,
         low |-> cs[r].low, close |-> cs[r].close, volume |-> cs[r].volume]]

Tables == UNION { {MkTable(cs) : cs \in [1..L -> Candles]} : L \in 0..MaxRows }

\* variant: the last window start is lost (stop one interval early)
WindowStartsShort(n, interval) == PyRange(0, n - 2 * interval, interval)

\* range(0, len(df)-interval, interval)
WindowStarts(n, interval) == PyRange(0, n - interval, interval)

\* variant: close taken from the window's own last row
CoarseRowInclusiveClose(candles, i, interval) ==
    [date   |-> At(candles, i).date,
     open   |-> At(candles, i).open,
     high   |-> SeqMax(Column(Slice(candles, i, i + interval), "high")),
     low    |-> SeqMin(Column(Slice(candles, i, i + interval), "low")),
     close  |-> At(candles, i + interval - 1).close,
     volume |-> SeqSum(Column(Slice(candles, i, i + interval), "volume"))]

\* the list appended to results for window start i
CoarseRow(candles, i, interval) ==
    [date   |-> At(candles, i).date,
     open   |-> At(candles, i).open,
     high   |-> SeqMax(Column(Slice(candles, i, i + interval), "high")),
     low    |-> SeqMin(Column(Slice(candles, i, i + interval), "low")),
     close  |-> At(candles, i + interval).close,
     volume |-> SeqSum(Column(Slice(candles, i, i + interval), "volume"))]

group_candles(df, interval) ==
    LET starts == WindowStarts(Len(df), interval)
    IN  [j \in 1..Len(starts) |-> CoarseRow(df, starts[j], interval)]

InitGroupCandles ==
    /\ args \in [df : Tables, interval : 1..MaxInterval]
    /\ locals = NoLocals
    /\ ret = NoCall
    /\ pc = "call"

CallGroupCandles ==
    /\ pc = "call"
    /\ ret' = Return(group_candles(args.df, args.interval))
    /\ pc' = "done"
    /\ UNCHANGED <<args, locals>>

SpecGroupCandles == InitGroupCandles /\ [][CallGroupCandles]_vars

(***************************************************************************)
(* Claims about group_candles                                              *)
(***************************************************************************)
GcRows == ret.value
GcLen == Len(args.df)
GcK == args.interval

\* C1 as stated: group_candles(T, k) returns exactly floor((L - k) / k) rows.
C1_FloorRowCount ==
    pc = "done" => Len(GcRows) = (GcLen - GcK) \div GcK

\* C1 amended: group_candles(T, k) returns ceil((L - k) / k) rows when L > k
\* and no row when L <= k; the final partial window (when k does not divide
\* L) produces no output row.
C1_CeilRowCount ==
    pc = "done" =>
        /\ Len(GcRows) = (IF GcLen > GcK THEN (GcLen - 1) \div GcK ELSE 0)
        /\ GcLen % GcK # 0 =>
              \A j \in 1..Len(GcRows) :
                  GcRows[j].date # 100 + (GcLen \div GcK) * GcK

C1_Witness ==
    /\ pc = "done"
    /\ GcLen % GcK # 0
    /\ GcK >= 2
    /\ Len(GcRows) >= 2
    /\ Len(GcRows) # (GcLen - GcK) \div GcK

RECURSIVE VolumeOver(_, _, _)
VolumeOver(df, a, b) ==
    IF a > b THEN 0 ELSE df[a].volume + VolumeOver(df, a + 1, b)

\* C2: the row emitted for window start s (a multiple of k) has the date and
\* open of row s, the maximum high, the minimum low and the summed volume of
\* exactly the k rows s..s+k-1, and the close of row s+k, which is always an
\* existing row of the table.  (Rows are numbered from 0 in the claim and
\* from 1 in df, so row s of the claim is df[s + 1].)
C2_RowContents ==
    pc = "done" =>
        \A j \in 1..Len(GcRows) :
            LET s == (j - 1) * GcK
                window == (s + 1)..(s + GcK)
                row == GcRows[j]
            IN  /\ s + GcK <= GcLen - 1
                /\ row.date = args.df[s + 1].date
                /\ row.open = args.df[s + 1].open
                /\ \E r \in window : args.df[r].high = row.high
                /\ \A r \in window : args.df[r].high <= row.high
                /\ \E r \in window : args.df[r].low = row.low
                /\ \A r \in window : args.df[r].low >= row.low
                /\ row.volume = VolumeOver(args.df, s + 1, s + GcK)
                /\ row.close = args.df[s + GcK + 1].close

C2_Witness ==
    /\ pc = "done"
    /\ GcK >= 2
    /\ Len(GcRows) >= 2
    /\ GcRows[2].close # args.df[2 * GcK].close
    /\ GcRows[2].high # args.df[GcK + 1].high
    /\ GcRows[2].low # args.df[GcK + 1].low

(***************************************************************************)
(* fill_values                                                             *)
(***************************************************************************)
RECURSIVE Chain(_)
Chain(ss) == IF ss = <<>> THEN <<>> ELSE ss[1] \o Chain(Tail(ss))

\* [x] * n: a list of n copies, empty when n <= 0
Repeat(x, n) == [j \in 1..n |-> x]

\* variant: np.linspace with its default endpoint=True
LinspaceInclusive(start, stop, num) ==
    LET step == IF num > 1 THEN FDiv(F(stop - start), F(num - 1)) ELSE F(0)
    IN  [r \in 1..num |-> FAdd(FMul(F(r - 1), step), F(start))]

\* np.linspace(start, stop, num, endpoint=False)
Linspace(start, stop, num) ==
    LET step == FDiv(F(stop - start), F(num))
    IN  [r \in 1..num |-> FAdd(FMul(F(r - 1), step), F(start))]

\* variant: the result cut to target_len
PadTruncating(unpack, last, target_len) ==
    SubSeq(unpack \o Repeat(F(last), target_len - Len(unpack)), 1, target_len)

\* avgs_unpack.extend([averages[-1]] * (target_len - len(avgs_unpack)))
Pad(unpack, last, target_len) ==
    unpack \o Repeat(F(last), target_len - Len(unpack))

fill_values(averages, interval, target_len) ==
    LET avgs_zip == [j \in 1..(Len(averages) - 1) |->
                        <<averages[j], averages[j + 1], interval>>]
        avgs_gen == [j \in 1..Len(avgs_zip) |->
                        Linspace(avgs_zip[j][1], avgs_zip[j][2], avgs_zip[j][3])]
        avgs_unpack == Chain(avgs_gen)
    IN  IF Len(averages) = 0
        THEN Raise("IndexError")
        ELSE Return(Pad(avgs_unpack, averages[Len(averages)], target_len))

Series(maxlen) == UNION { [1..L -> 0..MaxVal] : L \in 0..maxlen }

InitFillValues ==
    /\ args \in [averages : Series(MaxAvgs), interval : 1..MaxInterval,
                 target_len : 0..MaxTarget]
    /\ locals = NoLocals
    /\ ret = NoCall
    /\ pc = "call"

CallFillValues ==
    /\ pc = "call"
    /\ ret' = fill_values(args.averages, args.interval, args.target_len)
    /\ pc' = "done"
    /\ UNCHANGED <<args, locals>>

SpecFillValues == InitFillValues /\ [][CallFillValues]_vars

(***************************************************************************)
(* Claims about fill_values                                                *)
(***************************************************************************)
FvM == Len(args.averages)
FvK == args.interval
FvInterpolated == (FvM - 1) * FvK

\* C3 as stated: for non-empty avgs, k >= 1 and target_len >= 0 the result
\* has exactly target_len elements.
C3_ExactlyTargetLen ==
    (pc = "done" /\ FvM >= 1) =>
        (ret.ok /\ Len(ret.value) = args.target_len)

\* C3 amended: for non-empty avgs and k >= 1 the result has exactly
\* target_len elements when target_len >= (m-1)*k; a smaller target_len is
\* not truncated to, the result then has (m-1)*k elements.
C3_TargetLenOrInterpolated ==
    (pc = "done" /\ FvM >= 1) =>
        /\ ret.ok
        /\ Len(ret.value) = (IF args.target_len >= FvInterpolated
                             THEN args.target_len ELSE FvInterpolated)

C3_Witness ==
    /\ pc = "done"
    /\ FvM >= 2
    /\ args.target_len > FvInterpolated
    /\ Len(ret.value) = args.target_len

\* a call with target_len below the interpolated length
C3_WitnessShortTarget ==
    /\ pc = "done"
    /\ FvM >= 2
    /\ args.target_len < FvInterpolated
    /\ Len(ret.value) = FvInterpolated

\* C4: with target_len >= (m-1)*k, position j*k + r (0 <= j < m-1,
\* 0 <= r < k) holds avgs[j] + r*(avgs[j+1] - avgs[j])/k, every position from
\* (m-1)*k on holds avgs[m-1], and a non-empty result starts with avgs[0].
\* (An element num/den equals v/k iff num * k = den * v.)
C4_PiecewiseLinear ==
    (pc = "done" /\ FvM >= 1 /\ args.target_len >= FvInterpolated) =>
        /\ ret.ok
        /\ \A j \in 0..(FvM - 2) : \A r \in 0..(FvK - 1) :
              LET x == ret.value[j * FvK + r + 1]
                  a == args.averages[j + 1]
                  b == args.averages[j + 2]
              IN  /\ x.den > 0
                  /\ x.num * FvK = x.den * (a * FvK + r * (b - a))
        /\ \A p \in (FvInterpolated + 1)..Len(ret.value) :
              ret.value[p] = F(args.averages[FvM])
        /\ Len(ret.value) > 0 => ret.value[1] = F(args.averages[1])

C4_Witness ==
    /\ pc = "done"
    /\ FvM >= 3
    /\ FvK >= 2
    /\ args.target_len > FvInterpolated
    /\ args.averages[1] < args.averages[2]
    /\ args.averages[2] > args.averages[3]
    /\ ret.value[2].den # 1

(***************************************************************************)
(* rsi                                                                     *)
(***************************************************************************)
\* np.diff(close)
Diff(close) == [j \in 1..(Len(close) - 1) |-> close[j + 1] - close[j]]

IsPositive(x) == x > 0
IsNegative(x) == x < 0

\* seed[seed > 0].sum() and seed[seed < 0].sum()
PositiveSum(s) == SeqSum(SelectSeq(s, IsPositive))
NegativeSum(s) == SeqSum(SelectSeq(s, IsNegative))

\* 100. - 100./(1. + up/down)
RsiValue(up, down) ==
    FSub(F(100), FDiv(F(100), FAdd(F(1), FDiv(up, down))))

\* variant: the prior value weighted n/n instead of (n-1)/n
SmoothNoDecay(prev, val, n) == FDiv(FAdd(FMul(prev, F(n)), F(val)), F(n))

\* (prev*(n-1) + val)/n
Smooth(prev, val, n) == FDiv(FAdd(FMul(prev, F(n - 1)), F(val)), F(n))

\* rsi[:n] = value
AssignPrefix(a, n, value) ==
    [j \in 1..Len(a) |-> IF j <= n THEN value ELSE a[j]]

ExampleClose == <<1, 2, 3, 4, 3, 2, 1, 2, 3, 4, 5, 6, 7, 8>>

Closes == UNION { [1..L -> 1..MaxPrice] : L \in 0..MaxClose }

InitRsi ==
    /\ args \in [close : Closes, n : 1..MaxN]
                    \cup {[close |-> ExampleClose, n |-> 3]}
    /\ locals = NoLocals
    /\ ret = NoCall
    /\ pc = "rsi_seed"

\* lines 95-100: the seed pair and the constant head of the result
RsiSeed ==
    /\ pc = "rsi_seed"
    /\ LET deltas == Diff(args.close)
           seed == Slice(deltas, 0, args.n + 1)
           up == FDiv(F(PositiveSum(seed)), F(args.n))
           down == FDiv(F(-NegativeSum(seed)), F(args.n))
           zeros == [j \in 1..Len(args.close) |-> F(0)]
       IN  locals' = [i |-> args.n, deltas |-> deltas, up |-> up, down |-> down,
                      rsi |-> AssignPrefix(zeros, args.n, RsiValue(up, down))]
    /\ pc' = "rsi_loop"
    /\ UNCHANGED <<args, ret>>

\* lines 101-113: one iteration of the loop
RsiLoop ==
    /\ pc = "rsi_loop"
    /\ locals.i < Len(args.close)
    /\ LET delta == At(locals.deltas, locals.i - 1)
           up_val == IF delta > 0 THEN delta ELSE 0
           down_val == IF delta > 0 THEN 0 ELSE -delta
           up == Smooth(locals.up, up_val, args.n)
           down == Smooth(locals.down, down_val, args.n)
       IN  locals' = [locals EXCEPT !.up = up, !.down = down,
                                    !.rsi[locals.i + 1] = RsiValue(up, down),
                                    !.i = locals.i + 1]
    /\ UNCHANGED <<args, ret, pc>>

\* line 115
RsiReturn ==
    /\ pc = "rsi_loop"
    /\ locals.i >= Len(args.close)
    /\ ret' = Return(locals.rsi)
    /\ pc' = "done"
    /\ UNCHANGED <<args, locals>>

NextRsi == RsiSeed \/ RsiLoop \/ RsiReturn

SpecRsi == InitRsi /\ [][NextRsi]_vars

(***************************************************************************)
(* Claims about rsi                                                        *)
(***************************************************************************)
RsiLen == Len(args.close)

\* close[i] - close[i-1] for the claim's 0-based index i
CloseDelta(i) == args.close[i + 1] - args.close[i]

RECURSIVE GainOver(_, _)
GainOver(a, b) ==
    IF a > b THEN 0 ELSE Max2(CloseDelta(a), 0) + GainOver(a + 1, b)

RECURSIVE LossOver(_, _)
LossOver(a, b) ==
    IF a > b THEN 0 ELSE Max2(-CloseDelta(a), 0) + LossOver(a + 1, b)

\* out = 100 - 100/(1 + up/down), that is 100*up/(up + down); a zero down
\* gives 100, or no number at all when up is zero too
IsRsiOf(out, up, down) ==
    IF down.num = 0
    THEN out = (IF up.num = 0 THEN NaN ELSE F(100))
    ELSE LET g == GCD(up.den, down.den)
             u == up.num * (down.den \div g)
             d == down.num * (up.den \div g)
         IN  out = Q(100 * u, u + d)

JustSeeded == pc = "rsi_loop" /\ locals.i = args.n

\* C5: the seed pair is computed from exactly the first n first-differences
\* of close, up = (sum of the positive ones)/n and down = (sum of the
\* magnitudes of the negative ones)/n, the outputs at indices 0..n-1 are all
\* the value 100 - 100/(1 + up/down) of that pair, and for the example series
\* with n = 3 the seed is up = 1, down = 0 and the outputs 0..2 are 100.
C5_SeedFromFirstNDeltas ==
    JustSeeded =>
        LET last == Min2(args.n, RsiLen - 1)
            up == Q(GainOver(1, last), args.n)
            down == Q(LossOver(1, last), args.n)
        IN  /\ locals.up = up
            /\ locals.down = down
            /\ \A j \in 1..Min2(args.n, RsiLen) : IsRsiOf(locals.rsi[j], up, down)
            /\ (args.close = ExampleClose /\ args.n = 3) =>
                  /\ locals.up = F(1)
                  /\ locals.down = F(0)
                  /\ \A j \in 1..3 : locals.rsi[j] = F(100)

\* C6: for every index i from n to len(close)-1 in increasing order the pair
\* is updated exactly once, with d = close[i] - close[i-1], to
\* up' = (up*(n-1) + max(d, 0))/n and down' = (down*(n-1) + max(-d, 0))/n,
\* the output at index i is 100 - 100/(1 + up'/down') of the updated pair,
\* and the output has the length of close.
RsiStepOk ==
    /\ pc = "rsi_seed" =>
          /\ locals'.i = args.n
          /\ Len(locals'.rsi) = RsiLen
    /\ (pc = "rsi_loop" /\ pc' = "rsi_loop") =>
          LET i == locals.i
              d == CloseDelta(i)
          IN  /\ args.n <= i /\ i <= RsiLen - 1
              /\ locals'.i = i + 1
              /\ locals'.up = Q(locals.up.num * (args.n - 1)
                                    + Max2(d, 0) * locals.up.den,
                                locals.up.den * args.n)
              /\ locals'.down = Q(locals.down.num * (args.n - 1)
                                      + Max2(-d, 0) * locals.down.den,
                                  locals.down.den * args.n)
              /\ IsRsiOf(locals'.rsi[i + 1], locals'.up, locals'.down)
              /\ \A j \in 1..RsiLen : j # i + 1 => locals'.rsi[j] = locals.rsi[j]
              /\ Len(locals'.rsi) = RsiLen
    /\ (pc = "rsi_loop" /\ pc' = "done") =>
          /\ locals.i >= RsiLen
          /\ ret' = Return(locals.rsi)
          /\ Len(ret'.value) = RsiLen

C6_Recurrence == [][RsiStepOk]_vars

C6_Witness ==
    /\ pc = "done"
    /\ args.n >= 2
    /\ RsiLen >= args.n + 2
    /\ \E i \in args.n..(RsiLen - 1) : CloseDelta(i) > 0
    /\ \E i \in args.n..(RsiLen - 1) : CloseDelta(i) < 0
    /\ ret.value[RsiLen].den > 1

\* what the seed step does on the example series: up = 1, down = 1/3, 75
C5_ExampleSeeded ==
    /\ JustSeeded
    /\ args.close = ExampleClose
    /\ args.n = 3
    /\ locals.up = F(1)
    /\ locals.down = Q(1, 3)
    /\ \A j \in 1..3 : locals.rsi[j] = F(75)

(***************************************************************************)
(* crossover                                                               *)
(***************************************************************************)
\* np.diff of a boolean array: neighbours compared with "not equal"
DiffBool(b) == [j \in 1..(Len(b) - 1) |-> b[j + 1] # b[j]]

\* variant: the leading False is not inserted
InsertFrontOmitted(a, x) == a

\* np.insert(a, 0, x)
InsertFront(a, x) == <<x>> \o a

RECURSIVE FlatNonzeroFrom(_, _)
FlatNonzeroFrom(a, j) ==
    IF j > Len(a) THEN <<>>
    ELSE (IF a[j] THEN <<j - 1>> ELSE <<>>) \o FlatNonzeroFrom(a, j + 1)

\* np.flatnonzero(a): the 0-based indices of the true entries, ascending
FlatNonzero(a) == FlatNonzeroFrom(a, 1)

crossover(x1, x2) ==
    LET x1_gt_x2 == [j \in 1..Len(x1) |-> x1[j] > x2[j]]
        cross == InsertFront(DiffBool(x1_gt_x2), FALSE)
    IN  FlatNonzero(cross)

SeriesPairs ==
    UNION { [x1 : [1..L -> 0..MaxVal], x2 : [1..L -> 0..MaxVal]] : L \in 0..MaxLen }

InitCrossover ==
    /\ args \in SeriesPairs
    /\ locals = NoLocals
    /\ ret = NoCall
    /\ pc = "call"

CallCrossover ==
    /\ pc = "call"
    /\ ret' = Return(crossover(args.x1, args.x2))
    /\ pc' = "done"
    /\ UNCHANGED <<args, locals>>

SpecCrossover == InitCrossover /\ [][CallCrossover]_vars

(***************************************************************************)
(* Claims about crossover                                                  *)
(***************************************************************************)
\* A[i] > B[i] for the claim's 0-based index i
Above(i) == args.x1[i + 1] > args.x2[i + 1]

\* C7: crossover(A, B) returns, strictly increasing and so without
\* duplicates, exactly the indices i >= 1 at which the truth value of
\* A[i] > B[i] differs from that of A[i-1] > B[i-1]; index 0 is never
\* returned and crossover(S, S) is empty.
C7_CrossingIndices ==
    pc = "done" =>
        LET r == ret.value
            n == Len(args.x1)
        IN  /\ \A p \in 1..(Len(r) - 1) : r[p] < r[p + 1]
            /\ {r[p] : p \in 1..Len(r)}
                  = {i \in 1..(n - 1) : Above(i) # Above(i - 1)}
            /\ \A p \in 1..Len(r) : r[p] # 0
            /\ args.x1 = args.x2 => r = <<>>

C7_Witness ==
    /\ pc = "done"
    /\ Len(ret.value) >= 2
    /\ ret.value[1] = 1

(***************************************************************************)
(* maxmin                                                                  *)
(***************************************************************************)
\* np.amax(args, axis=0) / np.amin(args, axis=0)
Amax(series) ==
    [j \in 1..Len(series[1]) |-> SeqMax([k \in 1..Len(series) |-> series[k][j]])]
Amin(series) ==
    [j \in 1..Len(series[1]) |-> SeqMin([k \in 1..Len(series) |-> series[k][j]])]

\* variant: every tag other than "max" means "min"
maxminDefaultsToMin(max_or_min, series) ==
    IF max_or_min = "max" THEN Return(Amax(series)) ELSE Return(Amin(series))

maxmin(max_or_min, series) ==
    IF max_or_min = "max" THEN Return(Amax(series))
    ELSE IF max_or_min = "min" THEN Return(Amin(series))
    ELSE Raise("ValueError")

Modes == {"max", "min", "avg"}

\* no further series, or one more, constant
ExtraSeries(n) == {<<>>} \cup {<<[j \in 1..n |-> c]>> : c \in 0..MaxVal}

InitMaxmin ==
    /\ \E mode \in Modes, p \in SeriesPairs :
          \E extra \in ExtraSeries(Len(p.x1)) :
              args = [max_or_min |-> mode, series |-> <<p.x1, p.x2>> \o extra]
    /\ locals = NoLocals
    /\ ret = NoCall
    /\ pc = "call"

CallMaxmin ==
    /\ pc = "call"
    /\ ret' = maxmin(args.max_or_min, args.series)
    /\ pc' = "done"
    /\ UNCHANGED <<args, locals>>

SpecMaxmin == InitMaxmin /\ [][CallMaxmin]_vars

(***************************************************************************)
(* Claims about maxmin                                                     *)
(***************************************************************************)
MmValuesAt(j) == {args.series[k][j] : k \in 1..Len(args.series)}

\* C8: for two or more equal-length series maxmin("max", ...) holds at every
\* index the largest of the series' values there and maxmin("min", ...) the
\* smallest, in a result of the same length; any other mode tag fails with an
\* invalid-argument error (ValueError) and returns no series.
C8_MaxMinOrError ==
    pc = "done" =>
        LET n == Len(args.series[1]) IN
        /\ args.max_or_min = "max" =>
              /\ ret.ok /\ Len(ret.value) = n
              /\ \A j \in 1..n : /\ ret.value[j] \in MmValuesAt(j)
                                 /\ \A v \in MmValuesAt(j) : v <= ret.value[j]
        /\ args.max_or_min = "min" =>
              /\ ret.ok /\ Len(ret.value) = n
              /\ \A j \in 1..n : /\ ret.value[j] \in MmValuesAt(j)
                                 /\ \A v \in MmValuesAt(j) : v >= ret.value[j]
        /\ args.max_or_min \notin {"max", "min"} => ret = Raise("ValueError")

C8_Witness ==
    /\ pc = "done"
    /\ args.max_or_min = "avg"
    /\ Len(args.series) = 3
    /\ Len(args.series[1]) >= 2
    /\ args.series[1] # args.series[2]
    /\ ~ret.ok
    /\ ret.error = "ValueError"

\* a "max" call whose result is none of its inputs
C8_WitnessMax ==
    /\ pc = "done"
    /\ args.max_or_min = "max"
    /\ ret.ok
    /\ \A k \in 1..Len(args.series) : ret.value # args.series[k]

(***************************************************************************)
(* atr and sma                                                             *)
(***************************************************************************)
\* elementwise a - b; an array of length one is broadcast
VecSub(a, b) ==
    LET n == IF Len(b) = 1 THEN Len(a) ELSE IF Len(a) = 1 THEN Len(b) ELSE Len(a)
    IN  [j \in 1..n |-> (IF Len(a) = 1 THEN a[1] ELSE a[j])
                            - (IF Len(b) = 1 THEN b[1] ELSE b[j])]

VecAbs(a) == [j \in 1..Len(a) |-> Abs(a[j])]

\* variant: the first previous close is the first close
PrevCloseRepeatsFirst(close) ==
    IF close = <<>> THEN <<>> ELSE <<close[1]>> \o SubSeq(close, 1, Len(close) - 1)

\* np.insert(close[:-1], 0, 0)
PrevClose(close) == <<0>> \o SubSeq(close, 1, Len(close) - 1)

\* line.rolling(window=window, min_periods=1).mean()
sma(line, window) ==
    [j \in 1..Len(line) |->
        LET first == Max2(1, j - window + 1)
        IN  FDiv(F(SeqSum(SubSeq(line, first, j))), F(j - first + 1))]

atr(high, low, close, window) ==
    LET prev_close == PrevClose(close)
        true_range == maxmin("max", <<VecSub(high, low),
                                      VecAbs(VecSub(high, prev_close)),
                                      VecAbs(VecSub(low, prev_close))>>).value
    IN  sma(true_range, window)

InitAtr ==
    /\ \E df \in Tables, window \in 1..MaxN :
          args = [high |-> Column(df, "high"), low |-> Column(df, "low"),
                  close |-> Column(df, "close"), window |-> window]
    /\ locals = NoLocals
    /\ ret = NoCall
    /\ pc = "call"

CallAtr ==
    /\ pc = "call"
    /\ ret' = Return(atr(args.high, args.low, args.close, args.window))
    /\ pc' = "done"
    /\ UNCHANGED <<args, locals>>

SpecAtr == InitAtr /\ [][CallAtr]_vars

(***************************************************************************)
(* Claims about atr                                                        *)
(***************************************************************************)
\* the true range at the claim's 0-based index i
TrueRangeAt(i) ==
    LET prevClose == IF i >= 1 THEN args.close[i] ELSE 0
        h == args.high[i + 1]
        l == args.low[i + 1]
    IN  Max2(h - l, Max2(Abs(h - prevClose), Abs(l - prevClose)))

RECURSIVE TrueRangeOver(_, _)
TrueRangeOver(a, b) ==
    IF a > b THEN 0 ELSE TrueRangeAt(a) + TrueRangeOver(a + 1, b)

\* C9: the true range at index i is the maximum of high[i]-low[i],
\* |high[i]-prevClose[i]| and |low[i]-prevClose[i]| with prevClose[i] =
\* close[i-1] for i >= 1 and prevClose[0] = 0; atr returns the mean of the
\* trailing min(i+1, window) true ranges, in a result as long as the inputs.
C9_RollingMeanOfTrueRange ==
    pc = "done" =>
        /\ Len(ret.value) = Len(args.high)
        /\ \A i \in 0..(Len(args.high) - 1) :
              LET cnt == Min2(i + 1, args.window)
                  out == ret.value[i + 1]
              IN  /\ out.den > 0
                  /\ out.num * cnt = out.den * TrueRangeOver(i - cnt + 1, i)

C9_Witness ==
    /\ pc = "done"
    /\ Len(args.high) >= 4
    /\ args.window = 2
    /\ TrueRangeAt(0) # args.high[1] - args.low[1]
    /\ \E i \in 1..3 : TrueRangeAt(i) = args.close[i] - args.low[i + 1]
                        /\ TrueRangeAt(i) > args.high[i + 1] - args.low[i + 1]
    /\ \E i \in 1..3 : TrueRangeAt(i) = args.high[i + 1] - args.close[i]
                        /\ TrueRangeAt(i) > args.high[i + 1] - args.low[i + 1]
    /\ ret.value[4].den = 2

(***************************************************************************)
(* intersection                                                            *)
(***************************************************************************)
\* variant: y taken along a's slope from b0
intersectionOnWrongSlope(a0, a1, b0, b1) ==
    LET a_diff == a1 - a0
        b_diff == b1 - b0
        pos0_diff == F(a0 - b0)
    IN  IF b_diff - a_diff = 0
        THEN Raise("ZeroDivisionError")
        ELSE LET x == FDiv(pos0_diff, F(b_diff - a_diff))
                 y == FAdd(FMul(F(a_diff), x), F(b0))
             IN  Return(<<x, y>>)

\* Python scalars: a zero divisor raises
intersection(a0, a1, b0, b1) ==
    LET a_diff == a1 - a0
        b_diff == b1 - b0
        pos0_diff == F(a0 - b0)
    IN  IF b_diff - a_diff = 0
        THEN Raise("ZeroDivisionError")
        ELSE LET x == FDiv(pos0_diff, F(b_diff - a_diff))
                 y == FAdd(FMul(F(b_diff), x), F(b0))
             IN  Return(<<x, y>>)

Coords == (-MaxCoord)..MaxCoord

InitIntersection ==
    /\ args \in [a0 : Coords, a1 : Coords, b0 : Coords, b1 : Coords]
    /\ locals = NoLocals
    /\ ret = NoCall
    /\ pc = "call"

CallIntersection ==
    /\ pc = "call"
    /\ ret' = intersection(args.a0, args.a1, args.b0, args.b1)
    /\ pc' = "done"
    /\ UNCHANGED <<args, locals>>

SpecIntersection == InitIntersection /\ [][CallIntersection]_vars

(***************************************************************************)
(* Claims about intersection                                               *)
(***************************************************************************)
\* y = p0 + (p1 - p0)*x for x = x.num/x.den and y = y.num/y.den
OnLine(x, y, p0, p1) ==
    y.num * x.den = y.den * (p0 * x.den + (p1 - p0) * x.num)

\* C10: whenever (b1 - b0) # (a1 - a0), the returned (x, y) has
\* x = (a0 - b0)/((b1 - b0) - (a1 - a0)) and lies on both lines,
\* y = a0 + (a1 - a0)*x and y = b0 + (b1 - b0)*x; intersection(0, 1, 2, 2)
\* yields such a point.
C10_OnBothLines ==
    (pc = "done" /\ (args.b1 - args.b0) # (args.a1 - args.a0)) =>
        /\ ret.ok
        /\ LET x == ret.value[1]
               y == ret.value[2]
           IN  /\ x.den > 0 /\ y.den > 0
               /\ x.num * ((args.b1 - args.b0) - (args.a1 - args.a0))
                     = x.den * (args.a0 - args.b0)
               /\ OnLine(x, y, args.a0, args.a1)
               /\ OnLine(x, y, args.b0, args.b1)

C10_Witness ==
    /\ pc = "done"
    /\ args = [a0 |-> 0, a1 |-> 1, b0 |-> 2, b1 |-> 2]
    /\ ret = Return(<<F(2), F(2)>>)

====
